---- MODULE Spec2Model ----
(***************************************************************************)
(* wav2png: the waveform renderer compute_waveform and the main flow of    *)
(* src/src/wav2png.cpp, as a state machine.                                *)
(*                                                                         *)
(* Spec      main() from the opened sound file to the process exit, with   *)
(*           one action per statement of main and per iteration of the     *)
(*           column loop of compute_waveform; images are held pixel by     *)
(*           pixel, so the heights are small.                              *)
(* SpecSpan  one iteration of the column loop (lines 111-127) without the  *)
(*           painting, for heights over the whole range of `unsigned`,     *)
(*           where the 32-bit products and sums wrap.                      *)
(***************************************************************************)
EXTENDS Integers, Sequences, FiniteSets

VARIABLES
  pc,                 \* position of the process in main / compute_waveform
  width, height,      \* options.width, options.height
  frames, channels,   \* wav.frames(), wav.channels()
  openError,          \* wav.error() right after the file was opened
  readFailed,         \* a readf call met an error of the audio source
  cursor,             \* read cursor of the audio source, in frames
  source,             \* the frames delivered so far, in order (history)
  out_image,          \* main's image, passed by reference
  small_image,        \* compute_waveform's intermediate image
  not_enough_samples,
  frames_per_pixel,
  block, n,           \* the sample buffer and the count of the last readf
  x,                  \* loop variable of the column loop
  min, max,           \* envelope of the last column
  h, y1, y2,          \* `const unsigned h` and the last column's spans
  env,                \* per painted column: the frames its read delivered,
                      \* its min, max, y1 and y2 (history)
  assertion,          \* "none", or the assert that aborted the process
  events,             \* what main did so far, in order (history)
  written,            \* image.write was called
  exitCode            \* "none", main's return value, or "SIGABRT"

vars == <<pc, width, height, frames, channels, openError, readFailed, cursor,
          source, out_image, small_image, not_enough_samples,
          frames_per_pixel, block, n, x, min, max, h, y1, y2, env,
          assertion, events, written, exitCode>>

----------------------------------------------------------------------------
(* Bounds of the model.                                                    *)

MaxWidth == 3
MaxHeight == 3
MaxFrames == 4

\* wav.channels(): mono and stereo files.
ChannelCounts == {1, 2}

SHRT_MIN == -(2^15)
SHRT_MAX == 2^15 - 1

(* The samples a frame may hold: in channel 0 the two ends of `short` and  *)
(* silence, in every other channel the two ends of `short` (never silent,  *)
(* so a read of the wrong channel shows).                                  *)
SampleValues(c) == IF c = 1 THEN {SHRT_MIN, 0, SHRT_MAX} ELSE {SHRT_MIN, SHRT_MAX}

\* The frames of `ch` channels a file may hold.
Frames(ch) == {f \in [1..ch -> {SHRT_MIN, 0, SHRT_MAX}] :
                 \A c \in 1..ch : f[c] \in SampleValues(c)}

----------------------------------------------------------------------------
(* 32-bit unsigned arithmetic.  A value of type `unsigned` is the pair     *)
(* <<hi, lo>> of its 16-bit halves, so that no intermediate result leaves  *)
(* the integers the model checker computes with.                           *)

Half == 2^16

U32(k) == <<k \div Half, k % Half>>

U32Val(u) == u[1] * Half + u[2]

\* int * unsigned -> unsigned, for 0 <= a <= 2^15: the product modulo 2^32.
U32Mul(a, u) ==
  LET pl == a * u[2]
      ph == a * u[1] + pl \div Half
  IN  <<ph % Half, pl % Half>>

\* unsigned / d for 0 < d <= 2^15.
U32Div(u, d) ==
  LET r == u[1] % d
  IN  <<u[1] \div d, (r * Half + u[2]) \div d>>

\* unsigned + unsigned, modulo 2^32.
U32Add(u, v) ==
  LET l == u[2] + v[2]
  IN  <<(u[1] + v[1] + l \div Half) % Half, l % Half>>

\* unsigned - unsigned, modulo 2^32.
U32Sub(u, v) ==
  LET borrow == IF u[2] < v[2] THEN 1 ELSE 0
  IN  <<(u[1] - v[1] - borrow + Half) % Half, (u[2] - v[2] + Half) % Half>>

U32Less(u, v) == u[1] < v[1] \/ (u[1] = v[1] /\ u[2] < v[2])

U32Leq(u, v) == ~U32Less(v, u)

\* std::min and std::max on size_t values (all of them below 2^32).
StdMin(a, b) == IF U32Less(b, a) THEN b ELSE a

StdMax(a, b) == IF U32Less(a, b) THEN b ELSE a

\* clamp<size_t>(x, min, max)
clamp(v, lo, hi) == StdMax(lo, StdMin(hi, v))


----------------------------------------------------------------------------
(* Samples and the column's spans (compute_waveform, lines 50-53, 111-127) *)

SizeofShort == 2

\* Mutant: the scale taken as the largest sample, not 2^15.
sample_scale_max == SHRT_MAX

\* sample_scale<short>::value
sample_scale == 2^(SizeofShort * 8 - 1)

SMin(a, b) == IF b < a THEN b ELSE a

SMax(a, b) == IF a < b THEN b ELSE a

\* for (int i=0; i<n; i+=wav.channels()): min and max over block[i],
\* as the pair <<min, max>>, here from index i on.
RECURSIVE MinMaxLoop(_, _, _, _, _)
MinMaxLoop(blk, cnt, ch, i, mm) ==
  IF i < cnt
    THEN MinMaxLoop(blk, cnt, ch, i + ch,
                    <<SMin(mm[1], blk[i + 1]), SMax(mm[2], blk[i + 1])>>)
    ELSE mm

\* Mutant: the loop steps over every sample, not every channels-th one.
FindMinMaxAllSamples(blk, cnt, ch) == MinMaxLoop(blk, cnt, 1, 0, <<0, 0>>)

\* Mutant: the loop runs to block.size(), not to the count n just read.
FindMinMaxWholeBlock(blk, cnt, ch) == MinMaxLoop(blk, Len(blk), ch, 0, <<0, 0>>)

\* sample_type min(0); sample_type max(0); and the loop.
FindMinMax(blk, cnt, ch) == MinMaxLoop(blk, cnt, ch, 0, <<0, 0>>)

\* size_t y1 = clamp<size_t>((h-(-min*h/sample_scale<sample_type>::value))/2, 0, h);
\* -min is an int in 0..2^15, the product and the difference are unsigned.
ComputeY1(mn, hh) ==
  clamp(U32Div(U32Sub(hh, U32Div(U32Mul(-mn, hh), sample_scale)), 2),
        U32(0), hh)

\* size_t y2 = clamp<size_t>((h+max*h/sample_scale<sample_type>::value)/2, 0, h);
ComputeY2(mx, hh) ==
  clamp(U32Div(U32Add(hh, U32Div(U32Mul(mx, hh), sample_scale)), 2),
        U32(0), hh)

\* assert(0 <= y1 && y1 <= h/2);
AssertY1(a, hh) == U32Leq(U32(0), a) /\ U32Leq(a, U32Div(hh, 2))

\* assert(h/2 <= y2 && y2 <= h);
AssertY2(b, hh) == U32Leq(U32Div(hh, 2), b) /\ U32Leq(b, hh)

----------------------------------------------------------------------------
(* Images (png::image<png::rgba_pixel>).  A pixel carries its colour and,  *)
(* as history, the number of times it was assigned.                        *)

bg_color == "bg"
fg_color == "fg"
DefaultPixel == [color |-> "default", writes |-> 0]

\* png::image(): an image without pixels.
EmptyImage == [w |-> 0, h |-> 0, px |-> <<>>]

\* png::image(width, height)
NewImage(w, hh) ==
  [w |-> w, h |-> hh,
   px |-> [c \in 0..(w - 1) |-> [r \in 0..(hh - 1) |-> DefaultPixel]]]

get_width(img) == img.w

get_height(img) == img.h

\* Mutant: the third fill loop is missing, rows [b, hh) are never assigned.
PaintColumnNoBottom(img, col, a, b, hh) ==
  [img EXCEPT !.px[col] =
     [r \in 0..(hh - 1) |->
        IF r < b
          THEN [color  |-> IF r < a THEN bg_color ELSE fg_color,
                writes |-> img.px[col][r].writes + 1]
          ELSE img.px[col][r]]]

\* The three fill loops of lines 129-139 on column col: rows [0, a) get
\* bg_color, rows [a, b) fg_color, rows [b, hh) bg_color, in that order.
PaintColumn(img, col, a, b, hh) ==
  [img EXCEPT !.px[col] =
     [r \in 0..(hh - 1) |->
        LET first  == r < a
            second == a <= r /\ r < b
            third  == b <= r
            count  == (IF first THEN 1 ELSE 0) + (IF second THEN 1 ELSE 0)
                      + (IF third THEN 1 ELSE 0)
        IN  [color  |-> IF third THEN bg_color
                        ELSE IF second THEN fg_color
                        ELSE IF first THEN bg_color
                        ELSE img.px[col][r].color,
             writes |-> img.px[col][r].writes + count]]]

\* Mutant: the source column is x itself, held inside the small image.
UpscaleColumnClamped(col, small_w, out_w) ==
  IF col < small_w THEN col ELSE small_w - 1

\* std::size_t xx = x*small_image.get_width()/out_image.get_width();
UpscaleColumn(col, small_w, out_w) == (col * small_w) \div out_w

\* The upscale loops of lines 153-159: out_image[y][x] = small_image[y][xx].
Upscaled(out, small) ==
  [out EXCEPT !.px =
     [c \in 0..(out.w - 1) |->
        [r \in 0..(out.h - 1) |->
           [color  |-> small.px[UpscaleColumn(c, small.w, out.w)][r].color,
            writes |-> out.px[c][r].writes + 1]]]]

\* assert( xx < out_image.get_width() ) for every x of the upscale loops;
\* with a height of 0 the loop body never runs.
AssertUpscale(out, small) ==
  out.h = 0 \/ \A c \in 0..(out.w - 1) : UpscaleColumn(c, small.w, out.w) < out.w

----------------------------------------------------------------------------
(* The audio source (SndfileHandle).                                       *)

\* readf(ptr, count): the number of frames a successful read delivers.
ReadableFrames(count) == SMin(count, frames - cursor)

\* The interleaved samples of a sequence of frames.
RECURSIVE Interleave(_)
Interleave(fs) ==
  IF fs = <<>> THEN <<>> ELSE Head(fs) \o Interleave(Tail(fs))

\* block after readf stored `samples` at &block[0]: the rest keeps its value.
BlockAfterRead(blk, samples) ==
  samples \o SubSeq(blk, Len(samples) + 1, Len(blk))

\* Mutant: the quotient rounded up, so that the columns cover every frame.
FramesPerPixelCeil(fc, w) == SMax(1, (fc + w - 1) \div w)

\* int frames_per_pixel = std::max<int>(1, wav.frames() / image.get_width());
FramesPerPixel(fc, w) == SMax(1, fc \div w)

\* Mutant: no substitute for a frame count of 0.
SmallWidthUnguarded(fc) == fc

\* wav.frames()>0?wav.frames():1
SmallWidth(fc) == IF fc > 0 THEN fc ELSE 1

\* png::image< png::rgba_pixel >& image = not_enough_samples?small_image:out_image;
image == IF not_enough_samples THEN small_image ELSE out_image


----------------------------------------------------------------------------
(* main and compute_waveform.                                              *)

\* The state after `SndfileHandle wav(options.input_file_name)`, line 173.
Init ==
  /\ pc = "opened"
  /\ width \in 1..MaxWidth
  /\ height \in 0..MaxHeight
  /\ frames \in 0..MaxFrames
  /\ channels \in ChannelCounts
  /\ openError \in BOOLEAN
  /\ readFailed = FALSE
  /\ cursor = 0
  /\ source = <<>>
  /\ out_image = EmptyImage
  /\ small_image = EmptyImage
  /\ not_enough_samples = FALSE
  /\ frames_per_pixel = 0
  /\ block = <<>>
  /\ n = 0
  /\ x = 0
  /\ min = 0
  /\ max = 0
  /\ h = U32(0)
  /\ y1 = U32(0)
  /\ y2 = U32(0)
  /\ env = <<>>
  /\ assertion = "none"
  /\ events = <<>>
  /\ written = FALSE
  /\ exitCode = "none"

\* Mutant: wav.error() is not looked at.
MainIgnoreError ==
  /\ pc = "opened"
  /\ pc' = "create"
  /\ UNCHANGED <<width, height, frames, channels, openError, readFailed,
                 cursor, source, out_image, small_image, not_enough_samples,
                 frames_per_pixel, block, n, x, min, max, h, y1, y2, env,
                 assertion, events, written, exitCode>>

\* if ( wav.error() ) { ...; return 2; }
MainCheckError ==
  /\ pc = "opened"
  /\ IF openError
       THEN /\ pc' = "exited"
            /\ exitCode' = "2"
            /\ events' = Append(events, "return 2")
       ELSE /\ pc' = "create"
            /\ UNCHANGED <<exitCode, events>>
  /\ UNCHANGED <<width, height, frames, channels, openError, readFailed,
                 cursor, source, out_image, small_image, not_enough_samples,
                 frames_per_pixel, block, n, x, min, max, h, y1, y2, env,
                 assertion, written>>

\* png::image< png::rgba_pixel > image(options.width, options.height);
MainCreateImage ==
  /\ pc = "create"
  /\ out_image' = NewImage(width, height)
  /\ events' = Append(events, "create image")
  /\ pc' = "call"
  /\ UNCHANGED <<width, height, frames, channels, openError, readFailed,
                 cursor, source, small_image, not_enough_samples,
                 frames_per_pixel, block, n, x, min, max, h, y1, y2, env,
                 assertion, written, exitCode>>

\* compute_waveform(wav, image, ...): lines 75-99, up to the column loop.
ComputeWaveformEnter ==
  /\ pc = "call"
  /\ LET nes == frames < get_width(out_image)
         sm  == IF nes THEN NewImage(SmallWidth(frames), get_height(out_image))
                       ELSE small_image
         img == IF nes THEN sm ELSE out_image
         fpp == FramesPerPixel(frames, get_width(img))
     IN  /\ h' = U32(get_height(out_image))
         /\ not_enough_samples' = nes
         /\ small_image' = sm
         /\ IF get_width(img) > 0
              THEN /\ frames_per_pixel' = fpp
                   /\ block' = [i \in 1..(channels * fpp) |-> 0]
                   /\ pc' = "loop"
                   /\ UNCHANGED <<assertion, exitCode>>
              ELSE /\ assertion' = "image.get_width() > 0"
                   /\ exitCode' = "SIGABRT"
                   /\ pc' = "aborted"
                   /\ UNCHANGED <<frames_per_pixel, block>>
  /\ x' = 0
  /\ events' = Append(events, "call compute_waveform")
  /\ UNCHANGED <<width, height, frames, channels, openError, readFailed,
                 cursor, source, out_image, n, min, max, y1, y2, env, written>>

\* One iteration of `for (size_t x = 0; x < image.get_width(); ++x)`:
\* readf, the asserts, the envelope, the spans and the three fill loops.
\* A read that meets an error leaves the error in the handle and delivers
\* fewer frames than a successful one would; a read at the end of the
\* source has nothing to fail on.
Column ==
  /\ pc = "loop"
  /\ x < get_width(image)
  /\ \E fail \in BOOLEAN, delivered \in 0..ReadableFrames(frames_per_pixel) :
       /\ IF fail THEN delivered < ReadableFrames(frames_per_pixel)
                  ELSE delivered = ReadableFrames(frames_per_pixel)
       /\ \E fs \in [1..delivered -> Frames(channels)] :
             LET samples == Interleave(fs)
                 blk     == BlockAfterRead(block, samples)
                 cnt     == delivered * channels
                 mm      == FindMinMax(blk, cnt, channels)
                 a       == ComputeY1(mm[1], h)
                 b       == ComputeY2(mm[2], h)
                 failed  == IF ~(cnt <= Len(blk)) THEN "n <= block.size()"
                            ELSE IF ~AssertY1(a, h) THEN "0 <= y1 && y1 <= h/2"
                            ELSE IF ~AssertY2(b, h) THEN "h/2 <= y2 && y2 <= h"
                            ELSE "none"
                 painted == PaintColumn(image, x, U32Val(a), U32Val(b), U32Val(h))
             IN  /\ readFailed' = (readFailed \/ fail)
                 /\ cursor' = cursor + delivered
                 /\ source' = source \o fs
                 /\ block' = blk
                 /\ n' = cnt
                 /\ assertion' = failed
                 /\ IF failed = "none"
                      THEN /\ min' = mm[1]
                           /\ max' = mm[2]
                           /\ y1' = a
                           /\ y2' = b
                           /\ env' = Append(env, [got |-> fs, min |-> mm[1], max |-> mm[2],
                                                  y1 |-> U32Val(a), y2 |-> U32Val(b)])
                           /\ IF not_enough_samples
                                THEN small_image' = painted /\ UNCHANGED out_image
                                ELSE out_image' = painted /\ UNCHANGED small_image
                           /\ x' = x + 1
                           /\ UNCHANGED <<pc, exitCode>>
                      ELSE /\ pc' = "aborted"
                           /\ exitCode' = "SIGABRT"
                           /\ UNCHANGED <<min, max, y1, y2, env, out_image,
                                          small_image, x>>
  /\ UNCHANGED <<width, height, frames, channels, openError,
                 not_enough_samples, frames_per_pixel, h, events, written>>

\* After the loop, `if (not_enough_samples)`: the upscale loops, then return.
Upscale ==
  /\ pc = "loop"
  /\ ~(x < get_width(image))
  /\ not_enough_samples
  /\ IF AssertUpscale(out_image, small_image)
       THEN /\ out_image' = Upscaled(out_image, small_image)
            /\ pc' = "returned"
            /\ events' = Append(events, "compute_waveform returns")
            /\ UNCHANGED <<assertion, exitCode>>
       ELSE /\ assertion' = "xx < out_image.get_width()"
            /\ exitCode' = "SIGABRT"
            /\ pc' = "aborted"
            /\ UNCHANGED <<out_image, events>>
  /\ UNCHANGED <<width, height, frames, channels, openError, readFailed,
                 cursor, source, small_image, not_enough_samples,
                 frames_per_pixel, block, n, x, min, max, h, y1, y2, env,
                 written>>

\* After the loop with not_enough_samples false: return.
ReturnDirect ==
  /\ pc = "loop"
  /\ ~(x < get_width(image))
  /\ ~not_enough_samples
  /\ pc' = "returned"
  /\ events' = Append(events, "compute_waveform returns")
  /\ UNCHANGED <<width, height, frames, channels, openError, readFailed,
                 cursor, source, out_image, small_image, not_enough_samples,
                 frames_per_pixel, block, n, x, min, max, h, y1, y2, env,
                 assertion, written, exitCode>>

\* image.write(options.output_file_name);
MainWrite ==
  /\ pc = "returned"
  /\ written' = TRUE
  /\ events' = Append(events, "write image")
  /\ pc' = "wrote"
  /\ UNCHANGED <<width, height, frames, channels, openError, readFailed,
                 cursor, source, out_image, small_image, not_enough_samples,
                 frames_per_pixel, block, n, x, min, max, h, y1, y2, env,
                 assertion, exitCode>>

\* return 0;
MainReturn ==
  /\ pc = "wrote"
  /\ exitCode' = "0"
  /\ events' = Append(events, "return 0")
  /\ pc' = "exited"
  /\ UNCHANGED <<width, height, frames, channels, openError, readFailed,
                 cursor, source, out_image, small_image, not_enough_samples,
                 frames_per_pixel, block, n, x, min, max, h, y1, y2, env,
                 assertion, written>>

Next ==
  \/ MainCheckError
  \/ MainCreateImage
  \/ ComputeWaveformEnter
  \/ Column
  \/ Upscale
  \/ ReturnDirect
  \/ MainWrite
  \/ MainReturn

Spec == Init /\ [][Next]_vars


----------------------------------------------------------------------------
(* One iteration of the column loop over the whole range of `unsigned h`:  *)
(* the envelope of a block just read (lines 111-118), y1 with its assert   *)
(* (lines 122-123) and y2 with its assert (lines 126-127).  The image of   *)
(* such a height is not held; the fill loops are part of Column above.     *)

\* Heights from 0 to UINT_MAX, as <<hi, lo>>: the small ones, the ones
\* around 2^15, 2^16 and 2^17 (where -min*h reaches 2^32), and the ones
\* near 2^32.
SpanHeights ==
  {U32(k) : k \in 0..MaxHeight}
  \cup {U32(50), U32(1000), U32(2^15 - 1), U32(2^15), U32(2^15 + 1),
        U32(2^16 - 1), U32(2^16), U32(2^16 + 1), U32(100000),
        U32(2^17 - 1), U32(2^17), U32(2^17 + 1), U32(2^30),
        <<2^15 - 1, 2^16 - 1>>, <<2^15, 0>>, <<2^16 - 3, 2^16 - 1>>,
        <<2^16 - 2, 0>>, <<2^16 - 2, 5>>, <<2^16 - 1, 0>>,
        <<2^16 - 1, 2^16 - 2>>, <<2^16 - 1, 2^16 - 1>>}

\* Samples of a mono block: the ends of `short`, half scale, the smallest
\* positive amplitude and silence.
SpanSamples == {SHRT_MIN, -(2^14), 0, 1, SHRT_MAX}

RECURSIVE SeqsUpTo(_, _)
SeqsUpTo(S, k) ==
  IF k = 0 THEN {<<>>}
  ELSE LET shorter == SeqsUpTo(S, k - 1)
       IN  shorter \cup {Append(q, e) : q \in shorter, e \in S}

InitSpan ==
  /\ pc = "span_minmax"
  /\ h \in SpanHeights
  /\ channels = 1
  /\ block \in SeqsUpTo(SpanSamples, MaxFrames)
  /\ n = Len(block)
  /\ width = 1
  /\ height = 0
  /\ frames = 0
  /\ openError = FALSE
  /\ readFailed = FALSE
  /\ cursor = 0
  /\ source = <<>>
  /\ out_image = EmptyImage
  /\ small_image = EmptyImage
  /\ not_enough_samples = FALSE
  /\ frames_per_pixel = 0
  /\ x = 0
  /\ min = 0
  /\ max = 0
  /\ y1 = U32(0)
  /\ y2 = U32(0)
  /\ env = <<>>
  /\ assertion = "none"
  /\ events = <<>>
  /\ written = FALSE
  /\ exitCode = "none"

\* lines 111-118
SpanMinMax ==
  /\ pc = "span_minmax"
  /\ min' = FindMinMax(block, n, channels)[1]
  /\ max' = FindMinMax(block, n, channels)[2]
  /\ pc' = "span_y1"
  /\ UNCHANGED <<width, height, frames, channels, openError, readFailed,
                 cursor, source, out_image, small_image, not_enough_samples,
                 frames_per_pixel, block, n, x, h, y1, y2, env, assertion,
                 events, written, exitCode>>

\* lines 122-123
SpanY1 ==
  /\ pc = "span_y1"
  /\ y1' = ComputeY1(min, h)
  /\ IF AssertY1(ComputeY1(min, h), h)
       THEN /\ pc' = "span_y2"
            /\ UNCHANGED <<assertion, exitCode>>
       ELSE /\ assertion' = "0 <= y1 && y1 <= h/2"
            /\ exitCode' = "SIGABRT"
            /\ pc' = "aborted"
  /\ UNCHANGED <<width, height, frames, channels, openError, readFailed,
                 cursor, source, out_image, small_image, not_enough_samples,
                 frames_per_pixel, block, n, x, min, max, h, y2, env,
                 events, written>>

\* lines 126-127
SpanY2 ==
  /\ pc = "span_y2"
  /\ y2' = ComputeY2(max, h)
  /\ IF AssertY2(ComputeY2(max, h), h)
       THEN /\ pc' = "span_done"
            /\ UNCHANGED <<assertion, exitCode>>
       ELSE /\ assertion' = "h/2 <= y2 && y2 <= h"
            /\ exitCode' = "SIGABRT"
            /\ pc' = "aborted"
  /\ UNCHANGED <<width, height, frames, channels, openError, readFailed,
                 cursor, source, out_image, small_image, not_enough_samples,
                 frames_per_pixel, block, n, x, min, max, h, y1, env,
                 events, written>>

NextSpan == SpanMinMax \/ SpanY1 \/ SpanY2

SpecSpan == InitSpan /\ [][NextSpan]_vars

----------------------------------------------------------------------------
(* Properties.                                                             *)


\* compute_waveform has returned to main.
Returned == pc \in {"returned", "wrote"} \/ (pc = "exited" /\ ~openError)

\* The rendering width W: max(frame_count, 1) when frame_count < width,
\* else width.
RenderWidth == IF frames < width THEN (IF frames > 1 THEN frames ELSE 1) ELSE width

SetMin(S) == CHOOSE m \in S : \A e \in S : m <= e

SetMax(S) == CHOOSE m \in S : \A e \in S : e <= m

\* Column c of img shows the span [a, b): foreground there, background
\* in every other row.
ColumnShows(img, c, a, b) ==
  \A r \in 0..(img.h - 1) :
    img.px[c][r].color = (IF a <= r /\ r < b THEN fg_color ELSE bg_color)

(* C1: when compute_waveform has returned, the output buffer has the       *)
(* configured width and height, every pixel of it was written exactly once *)
(* and holds the foreground or the background colour; the columns were     *)
(* painted into the output buffer when frame_count >= width and into the   *)
(* intermediate buffer, then copied, when frame_count < width.             *)
C1_EveryPixelOnce ==
  Returned =>
    /\ out_image.w = width /\ out_image.h = height
    /\ \A c \in 0..(width - 1) : \A r \in 0..(height - 1) :
         /\ out_image.px[c][r].writes = 1
         /\ out_image.px[c][r].color \in {fg_color, bg_color}
    /\ not_enough_samples = (frames < width)
    /\ Len(env) = get_width(image)

C1_Witness ==
  /\ Returned /\ frames < width /\ height >= 2
  /\ \E c \in 0..(width - 1) : \E r, q \in 0..(height - 1) :
       out_image.px[c][r].color = fg_color /\ out_image.px[c][q].color = bg_color

(* C2: with no read error, column x of the rendered buffer is painted from *)
(* the envelope, seeded with 0, of the channel-0 samples of the source's   *)
(* frames [x*frames_per_pixel, (x+1)*frames_per_pixel) that exist, with    *)
(* frames_per_pixel = max(1, frame_count / W); all W columns are painted   *)
(* when compute_waveform returns.                                          *)
C2_ColumnEnvelope ==
  ~readFailed =>
    /\ Returned => Len(env) = RenderWidth
    /\ \A c \in 0..(Len(env) - 1) :
         LET fpp  == IF frames \div RenderWidth > 1 THEN frames \div RenderWidth ELSE 1
             idx  == {f \in (c * fpp + 1)..((c + 1) * fpp) : f <= frames}
             left == {0} \cup {source[f][1] : f \in idx}
         IN  /\ idx \subseteq 1..Len(source)
             /\ env[c + 1].min = SetMin(left)
             /\ env[c + 1].max = SetMax(left)
             /\ env[c + 1].y1 = U32Val(ComputeY1(SetMin(left), U32(height)))
             /\ env[c + 1].y2 = U32Val(ComputeY2(SetMax(left), U32(height)))
             /\ ColumnShows(image, c, env[c + 1].y1, env[c + 1].y2)

C2_Witness ==
  /\ Returned /\ ~readFailed /\ channels = 2 /\ frames_per_pixel = 2
  /\ width = 2 /\ frames = 4 /\ height >= 3
  /\ env[1].min = SHRT_MIN /\ env[1].max = 0
  /\ env[2].min = 0 /\ env[2].max = SHRT_MAX

(* C3: a painted column whose read delivered only frames with a channel-0  *)
(* sample of zero, or no frame at all, has y1 = y2 = h/2 and no foreground *)
(* pixel.                                                                  *)
C3_SilenceIsFlat ==
  \A c \in 0..(Len(env) - 1) :
    (\A k \in 1..Len(env[c + 1].got) : env[c + 1].got[k][1] = 0) =>
      /\ env[c + 1].y1 = height \div 2
      /\ env[c + 1].y2 = height \div 2
      /\ \A r \in 0..(height - 1) : image.px[c][r].color = bg_color

C3_Witness ==
  /\ Returned /\ height = 3 /\ channels = 2 /\ Len(env) >= 2
  /\ Len(env[1].got) = 1 /\ env[1].got[1][1] = SHRT_MAX
  /\ Len(env[2].got) = 1 /\ env[2].got[1][1] = 0
  /\ env[2].y1 = 1 /\ env[2].y2 = 1

(* C4 (as the claim states it): for every height h >= 1, a column whose    *)
(* channel-0 maximum is the largest positive amplitude of the sample type  *)
(* and whose minimum is 0 gets y2 = h, and a column whose minimum is the   *)
(* full-scale negative amplitude and whose maximum is 0 gets y1 = 0.       *)
C4_FullScaleReachesEdges ==
  (pc = "span_done" /\ U32Leq(U32(1), h)) =>
    /\ (max = SHRT_MAX /\ min = 0) => y2 = h
    /\ (min = SHRT_MIN /\ max = 0) => y1 = U32(0)

(* C4 (amended): a column whose channel-0 maximum is 32767, the largest    *)
(* sample of the 16-bit type (full scale 2^15 is no sample), gets          *)
(* y2 = h - 1 for every height 1 <= h <= 2^16, so the bottom row h-1 stays *)
(* background; a column whose minimum is -32768 gets y1 = 0 for every      *)
(* height 1 <= h < 2^17.                                                   *)
C4_FullScaleSpans ==
  /\ (pc = "span_done" /\ max = SHRT_MAX /\ U32Leq(U32(1), h) /\ U32Leq(h, U32(2^16)))
       => y2 = U32Sub(h, U32(1))
  /\ (pc \in {"span_y2", "span_done"} /\ min = SHRT_MIN /\ U32Leq(U32(1), h)
        /\ U32Less(h, U32(2^17)))
       => y1 = U32(0)

C4_Witness ==
  /\ pc = "span_done" /\ h = U32(2^16)
  /\ min = SHRT_MIN /\ max = SHRT_MAX
  /\ y1 = U32(0) /\ y2 = U32(2^16 - 1)

(* C5: whenever frame_count < width the intermediate buffer has width      *)
(* W = max(frame_count, 1) and the output's height, and once               *)
(* compute_waveform has returned every output pixel (x, y) equals the      *)
(* intermediate pixel (x * W / width, y), with x * W / width in [0, W);    *)
(* whenever frame_count >= width there is no intermediate buffer and the   *)
(* painted columns are in the output buffer.                               *)
C5_Upscale ==
  (pc \in {"loop", "returned", "wrote"} \/ (pc = "exited" /\ ~openError)) =>
    IF frames < width
      THEN /\ small_image.w = RenderWidth
           /\ small_image.h = height
           /\ Returned =>
                \A c \in 0..(width - 1) :
                  LET xx == (c * RenderWidth) \div width
                  IN  /\ xx \in 0..(RenderWidth - 1)
                      /\ \A r \in 0..(height - 1) :
                           /\ out_image.px[c][r].color = small_image.px[xx][r].color
                           /\ ColumnShows(out_image, c, env[xx + 1].y1, env[xx + 1].y2)
      ELSE /\ small_image = EmptyImage
           /\ \A c \in 0..(Len(env) - 1) :
                ColumnShows(out_image, c, env[c + 1].y1, env[c + 1].y2)

C5_Witness ==
  /\ Returned /\ frames = 2 /\ width = 3 /\ height = 3
  /\ env[1].y1 = 0 /\ env[1].y2 = 1
  /\ env[2].y1 = 1 /\ env[2].y2 = 2
  /\ out_image.px[1][0].color = fg_color
  /\ out_image.px[2][1].color = fg_color

(* C6: with frame_count = 0 no assert fails and the process is not         *)
(* aborted, the intermediate buffer has width 1, and once compute_waveform *)
(* has returned every pixel of the output buffer is background.            *)
C6_ZeroFrames ==
  (frames = 0 /\ ~openError) =>
    /\ assertion = "none" /\ pc # "aborted"
    /\ pc \in {"loop", "returned", "wrote", "exited"} =>
         small_image.w = 1 /\ small_image.h = height
    /\ Returned =>
         \A c \in 0..(width - 1) : \A r \in 0..(height - 1) :
           out_image.px[c][r].color = bg_color

C6_Witness ==
  /\ pc = "exited" /\ exitCode = "0" /\ frames = 0
  /\ width = MaxWidth /\ height = MaxHeight
  /\ out_image.px[MaxWidth - 1][MaxHeight - 1].color = bg_color

(* C7: a read that fails during rendering is fatal: no image is written    *)
(* and the process does not exit with code 0.                              *)
C7_ReadErrorIsFatal ==
  readFailed => (~written /\ exitCode # "0")

(* C8: if the audio source reports an error after being opened, main exits *)
(* with code 2 without creating the image, calling compute_waveform or     *)
(* writing the output; the image is written only after compute_waveform    *)
(* has returned, and 0 is returned only after the write.                   *)
C8_MainOrder ==
  /\ openError =>
       /\ events \in {<<>>, <<"return 2">>}
       /\ out_image = EmptyImage
       /\ ~written
       /\ pc \in {"opened", "exited"}
       /\ pc = "exited" => exitCode = "2"
  /\ written =>
       \E i, j \in 1..Len(events) :
         i < j /\ events[i] = "compute_waveform returns" /\ events[j] = "write image"
  /\ exitCode = "0" =>
       /\ written
       /\ events[Len(events)] = "return 0"
       /\ events[Len(events) - 1] = "write image"
  /\ exitCode = "2" => openError

C8_Witness ==
  pc = "exited" /\ openError /\ exitCode = "2" /\ frames > 0

(* C9 (as the claim states it): when compute_waveform returns after reads  *)
(* that all succeeded, the read cursor equals frame_count.                 *)
C9_ReadToExhaustion ==
  (Returned /\ ~readFailed) => cursor = frames

(* C9 (amended): when compute_waveform returns, the read cursor equals the *)
(* number of frames the W reads delivered, which is never more than        *)
(* frame_count - (frame_count mod W), and equal to it when no read failed: *)
(* the last frame_count mod W frames are never read.                       *)
C9_CursorAtReturn ==
  Returned =>
    /\ cursor = Len(source)
    /\ cursor <= frames - (frames % RenderWidth)
    /\ ~readFailed => cursor = frames - (frames % RenderWidth)

C9_Witness ==
  Returned /\ ~readFailed /\ frames = 3 /\ width = 2 /\ cursor = 2

(* C10: no assert of compute_waveform fails, for every height of the       *)
(* 32-bit unsigned range and every 16-bit sample.                          *)
C10_NoAssertionFails ==
  assertion = "none"

====
